---- MODULE Spec2Model ----
(***************************************************************************)
(* A model of the tripplite driver: the register table `structure`, the    *)
(* register reader Battery._read, the snapshot builder Battery.get, the    *)
(* session (open/close, context manager) and the command-line read path.   *)
(*                                                                         *)
(* One step of the snapshot builder runs from one get_feature_report call  *)
(* to the next one, so every transport read is a visible step.             *)
(***************************************************************************)
EXTENDS Integers, Sequences, FiniteSets, TLC

VARIABLES
    pc,          \* position of the caller
    args,        \* parsed command line: [list, product_id]
    hidDevices,  \* what hid.enumerate() yields: a sequence of device records
    product_id,  \* Battery.product_id
    isOpen,      \* the hid device handle is open
    opens,       \* successful device.open calls so far
    closes,      \* device.close calls so far
    output,      \* the dict `output` of the running Battery.get
    ci,          \* index of the category Battery.get is at (declared order)
    si,          \* index of the subcategory within it (0 for a flat category)
    retries,     \* the parameter `retries` of the running Battery._read
    nreads,      \* get_feature_report calls of the latest Battery._read call
    last,        \* what the latest activation of Battery._read did
    lastRead,    \* <<ci, si>> of the most recent get_feature_report call
    lastReport,  \* the report that call returned
    error,       \* the exception that escaped to the caller, or NoError
    printed,     \* snapshots handed to the caller (printed), oldest first
    dev,         \* scripted transport: address -> sequence of reports
    served,      \* calls the scripted transport has answered, by address
    scripted,    \* the transport answers from `dev` (else: any report)
    unitOptions, \* descriptor of a direct Battery._read call
    unitValue,   \* the value encoded into the report of that call, if any
    unitReport,  \* the report the transport answers that call with
    result       \* outcome of the direct Battery._read call

vars == <<pc, args, hidDevices, product_id, isOpen, opens, closes, output, ci,
          si, retries, nreads, last, lastRead, lastReport, error, printed,
          dev, served, scripted, unitOptions, unitValue, unitReport, result>>

----------------------------------------------------------------------------
(* Python values.  Every value is a record with a `type` field so that     *)
(* values of different Python types can be compared.                       *)

None == [type |-> "None"]
IntVal(n) == [type |-> "int", v |-> n]
BoolVal(b) == [type |-> "bool", v |-> b]
\* a float that is the quotient num / den
FloatVal(n, d) == [type |-> "float", num |-> n, den |-> d]
\* a dict keeps its items in insertion order
EmptyDict == [type |-> "dict", items |-> <<>>]

DictHas(d, k) == \E i \in 1..Len(d.items) : d.items[i][1] = k
DictGet(d, k) == d.items[CHOOSE i \in 1..Len(d.items) : d.items[i][1] = k][2]
\* d[k] = v
DictSet(d, k, v) ==
    IF DictHas(d, k)
    THEN [d EXCEPT !.items =
            [i \in 1..Len(d.items) |->
                IF d.items[i][1] = k THEN <<k, v>> ELSE d.items[i]]]
    ELSE [d EXCEPT !.items = Append(d.items, <<k, v>>)]

----------------------------------------------------------------------------
(* The register table.  A dict literal is the sequence of its items in     *)
(* declared order; a flat category is its descriptor, a nested category    *)
(* holds the items of its subcategories.                                   *)

VENDOR_ID == 2478   \* 0x09ae

structure == <<
    <<"config", [items |-> <<
        <<"voltage",   [address |-> 48, bytes |-> 1, format |-> "i"]>>,
        <<"frequency", [address |-> 2,  bytes |-> 1, format |-> "i"]>>,
        <<"power",     [address |-> 3,  bytes |-> 2, format |-> "i"]>> >>]>>,
    <<"status", [address |-> 50, bytes |-> 1, format |-> "b",
                 keys |-> <<"shutdown imminent", "ac present", "charging",
                            "discharging", "needs replacement",
                            "below remaining capacity", "fully charged",
                            "fully discharged">>]>>,
    <<"input", [items |-> <<
        <<"voltage",   [address |-> 24, bytes |-> 2, format |-> "f"]>>,
        <<"frequency", [address |-> 25, bytes |-> 2, format |-> "f"]>> >>]>>,
    <<"output", [items |-> <<
        <<"voltage",   [address |-> 27, bytes |-> 2, format |-> "f"]>>,
        <<"power",     [address |-> 71, bytes |-> 2, format |-> "i"]>> >>]>>,
    <<"health", [address |-> 52, bytes |-> 1, format |-> "i"]>>,
    <<"time to empty", [address |-> 53, bytes |-> 2, format |-> "i"]>> >>

NumCategories == Len(structure)
Category(c) == structure[c][1]
\* a table whose last descriptor has a format _read does not know
DataTypo(c) ==
    IF c = 6 THEN [address |-> 53, bytes |-> 2, format |-> "d"]
    ELSE structure[c][2]
Data(c) == structure[c][2]
\* 'address' in data
IsFlat(c) == "address" \in DOMAIN Data(c)
NumSub(c) == IF IsFlat(c) THEN 0 ELSE Len(Data(c).items)
Subcategory(c, s) == Data(c).items[s][1]
\* the descriptor Battery.get passes to _read at position (c, s)
Options(c, s) == IF IsFlat(c) THEN Data(c) ELSE Data(c).items[s][2]
\* the positions of all descriptors, and the descriptors themselves
Positions ==
    {<<c, 0>> : c \in {k \in 1..NumCategories : IsFlat(k)}}
    \cup UNION {{<<c, s>> : s \in 1..NumSub(c)} : c \in 1..NumCategories}
AllOptions == {Options(p[1], p[2]) : p \in Positions}
Addresses == {o.address : o \in AllOptions}

----------------------------------------------------------------------------
(* Battery._read: what one call does with the report the transport         *)
(* returned.  Python indexes from 0: report[k] is Byte(report, k).         *)

Byte(report, k) == report[k + 1]
\* a shift that is left out
ShlNone(x, k) == x
\* a shift by one bit too few
ShlShort(x, k) == x * (2 ^ (k - 1))
\* x << k
Shl(x, k) == x * (2 ^ k)

RECURSIVE BinDigits(_)
BinDigits(n) ==
    IF n < 2 THEN <<IF n = 1 THEN "1" ELSE "0">>
    ELSE Append(BinDigits(n \div 2), IF n % 2 = 1 THEN "1" ELSE "0")
\* '{:08b}'.format(n): binary, zero padded to at least 8 digits
Format08b(n) ==
    LET d == BinDigits(n)
    IN  IF Len(d) >= 8 THEN d
        ELSE [i \in 1..8 |-> IF i <= 8 - Len(d) THEN "0"
                             ELSE d[i - (8 - Len(d))]]
\* the digits left in printing order, most significant bit first
ReversedNot(s) == s
\* s[::-1]
Reversed(s) == [i \in 1..Len(s) |-> s[Len(s) + 1 - i]]
Min(a, b) == IF a < b THEN a ELSE b
\* zip(a, b)
Zip(a, b) == [i \in 1..Min(Len(a), Len(b)) |-> <<a[i], b[i]>>]
\* bool(int(v)) of a binary digit
BoolOfDigit(v) == v = "1"
\* {k: bool(int(v)) for k, v in pairs}
RECURSIVE FlagDict(_)
FlagDict(pairs) ==
    IF pairs = <<>> THEN EmptyDict
    ELSE LET n == Len(pairs)
         IN  DictSet(FlagDict(SubSeq(pairs, 1, n - 1)), pairs[n][1],
                     BoolVal(BoolOfDigit(pairs[n][2])))

Return(v) == [kind |-> "return", value |-> v]
Raise(e, m) == [kind |-> "raise", exc |-> e, msg |-> m]
Retry == [kind |-> "retry"]
\* indexing the list `report` past its end
IndexError == Raise("IndexError", "list index out of range")

\* the branches of _read that decode a correctly framed report
Decode(options, report) ==
    IF options.format = "b" THEN
        IF Len(report) < 2 THEN IndexError
        ELSE Return(FlagDict(Zip(options.keys,
                                 Reversed(Format08b(Byte(report, 1))))))
    ELSE IF options.format = "i" /\ options.bytes = 2 THEN
        IF Len(report) < 3 THEN IndexError
        ELSE Return(IntVal(Shl(Byte(report, 2), 8) + Byte(report, 1)))
    ELSE IF options.format = "i" /\ options.bytes = 1 THEN
        IF Len(report) < 2 THEN IndexError
        ELSE Return(IntVal(Byte(report, 1)))
    ELSE IF options.format = "f" THEN
        IF Len(report) < 3 THEN IndexError
        ELSE Return(FloatVal(Shl(Byte(report, 2), 8) + Byte(report, 1), 10))
    ELSE Return(None)

\* a retry bound that allows one read too many
MayRetryLate(r) == r >= 0
\* a retry bound that stops one read early
MayRetryEarly(r) == r > 1
\* `if retries > 0`: the empty report is read again
MayRetry(r) == r > 0

\* a reader that treats a framing mismatch as transient
ReadOnceRetryMismatch(options, report, r) ==
    IF report = <<>> \/ options.address # Byte(report, 0) THEN
        IF MayRetry(r) THEN Retry
        ELSE IF report = <<>> THEN Raise("IOError", "Did not receive data.")
        ELSE Raise("IOError", "Received unexpected data.")
    ELSE Decode(options, report)

\* a reader that does not compare the echoed address
ReadOnceNoFraming(options, report, r) ==
    IF report = <<>> THEN
        IF MayRetry(r) THEN Retry
        ELSE Raise("IOError", "Did not receive data.")
    ELSE Decode(options, report)

\* one activation of _read, given the report of its get_feature_report call
ReadOnce(options, report, r) ==
    IF report = <<>> THEN
        IF MayRetry(r) THEN Retry
        ELSE Raise("IOError", "Did not receive data.")
    ELSE IF options.address # Byte(report, 0) THEN
        Raise("IOError", "Received unexpected data.")
    ELSE Decode(options, report)

----------------------------------------------------------------------------
(* Bounds of the model and the values the environment is drawn from.       *)

MaxDevices == 2     \* hid.enumerate() yields at most this many devices
MaxGets == 2        \* a library caller calls Battery.get at most this often
MaxDeviants == 1    \* registers a scripted device answers abnormally

\* the vendor id of some other device
OTHER_VENDOR == VENDOR_ID + 1
\* payloads the transport answers with, by width
Payloads(n) == IF n = 1 THEN {<<3>>} ELSE {<<5, 1>>}
\* byte 0 of a report: the echoed register address, possibly another one
FrameBytes(options) ==
    {options.address, 0, CHOOSE a \in Addresses : a # options.address}
Prefixes(s) == {SubSeq(s, 1, n) : n \in 0..Len(s)}
\* what get_feature_report(address, bytes + 1) may return: nothing, or up
\* to bytes + 1 bytes
Reports(options) ==
    {<<>>} \cup {<<a>> \o q : a \in FrameBytes(options),
                 q \in UNION {Prefixes(pl) : pl \in Payloads(options.bytes)}}

\* the k-th answer of a scripted register; silent once the script is over
ScriptReport(script, k) == IF k <= Len(script) THEN script[k] ELSE <<>>
\* self.device.get_feature_report(options['address'], options['bytes'] + 1),
\* the k-th call for this descriptor within the running get()
Transport(options, k) ==
    IF scripted THEN {ScriptReport(dev[options.address], k)}
    ELSE Reports(options)

NoError == [kind |-> "none"]
NoDevice == [a \in Addresses |-> <<>>]
NoCalls == [a \in Addresses |-> 0]
\* the scripted transport counts the calls it answers
Serve(sv, a) == IF scripted THEN [sv EXCEPT ![a] = @ + 1] ELSE sv

----------------------------------------------------------------------------
(* Battery.__init__ and Battery._get_product_id                            *)

\* `x or y` takes y when x is None or 0
Truthy(v) == v # None /\ v # IntVal(0)
Matching(devs) == {i \in 1..Len(devs) : devs[i].vendor_id = VENDOR_ID}
\* a search that yields a default instead of failing
GetProductIdDefault(devs) ==
    IF Matching(devs) = {} THEN Return(IntVal(0))
    ELSE Return(IntVal(devs[CHOOSE i \in Matching(devs) :
                                \A j \in Matching(devs) : i <= j].product_id))
\* next(d['product_id'] for d in hid.enumerate() if d['vendor_id'] == VENDOR_ID)
GetProductId(devs) ==
    IF Matching(devs) = {}
    THEN Raise("IOError", "Could not find any connected Tripp Lite devices.")
    ELSE Return(IntVal(devs[CHOOSE i \in Matching(devs) :
                                \A j \in Matching(devs) : i <= j].product_id))
\* product_id or self._get_product_id()
InitProductId(pid, devs) ==
    IF Truthy(pid) THEN Return(pid) ELSE GetProductId(devs)

\* list_devices(): the product ids of the devices of the vendor
ListDevices(devs) ==
    [type |-> "list",
     items |-> [i \in 1..Len(devs) |-> devs[i].product_id]]

----------------------------------------------------------------------------
(* Battery.get: the walk over the register table                           *)

\* the loop reaches category c: a nested category gets its empty dict
EnterCategory(out, c) ==
    IF c > NumCategories \/ IsFlat(c) THEN out
    ELSE DictSet(out, Category(c), EmptyDict)
FirstSub(c) == IF c > NumCategories \/ IsFlat(c) THEN 0 ELSE 1
\* a store that puts a subcategory's value at the top level
StoreTop(out, c, s, v) ==
    IF IsFlat(c) THEN DictSet(out, Category(c), v)
    ELSE DictSet(out, Subcategory(c, s), v)
\* output[category] = v, or output[category][subcategory] = v
Store(out, c, s, v) ==
    IF IsFlat(c) THEN DictSet(out, Category(c), v)
    ELSE DictSet(out, Category(c),
                 DictSet(DictGet(out, Category(c)), Subcategory(c, s), v))
\* a walk that starts the subcategories over after the last one
NextPosWrap(c, s) ==
    IF IsFlat(c) THEN <<c + 1, FirstSub(c + 1)>>
    ELSE <<c, (s % NumSub(c)) + 1>>
\* where the walk goes after a value was stored at (c, s)
NextPos(c, s) ==
    IF IsFlat(c) \/ s >= NumSub(c) THEN <<c + 1, FirstSub(c + 1)>>
    ELSE <<c, s + 1>>
\* `except IOError: continue`: where the walk goes after a failed read
SkipPos(c, s) == <<c + 1, FirstSub(c + 1)>>
\* def _read(self, options, retries=3)
DefaultRetries == 3
\* a retry budget that is shared by all calls
CallRetriesShared(prev) == prev
\* the parameter `retries` of a _read call made by get(): the default, 3,
\* whatever an earlier call was left with
CallRetries(prev) == DefaultRetries
\* an except clause that drops what the category has so far
ExceptDrop(out, c) ==
    [out EXCEPT !.items =
        SelectSeq(out.items, LAMBDA it : it[1] # Category(c))]
\* an except clause that marks the failed category
ExceptMark(out, c) == DictSet(out, Category(c), None)
\* `except IOError: continue` leaves output as it is
Except(out, c) == out
\* the exceptions the try block of get() catches
Caught(o) == o.exc = "IOError"

----------------------------------------------------------------------------
(* The state after start-up.                                               *)

DeviceRecords(n) ==
    [1..n -> [vendor_id : {VENDOR_ID, OTHER_VENDOR}, product_id : {4097}]]
Enumerations == UNION {DeviceRecords(n) : n \in 0..MaxDevices}

\* what is common to every caller: nothing constructed, nothing read
Fresh ==
    /\ product_id = None
    /\ isOpen = FALSE
    /\ opens = 0
    /\ closes = 0
    /\ output = EmptyDict
    /\ ci = 0
    /\ si = 0
    /\ retries = DefaultRetries
    /\ nreads = 0
    /\ last = NoError
    /\ lastRead = <<0, 0>>
    /\ lastReport = <<>>
    /\ error = NoError
    /\ printed = <<>>
    /\ result = NoError

\* the command line tool, after parse_args()
Init ==
    /\ pc = "start"
    /\ args \in [list : BOOLEAN, product_id : {None, IntVal(0), IntVal(4098)}]
    /\ hidDevices \in Enumerations
    /\ Fresh
    /\ dev = NoDevice
    /\ served = NoCalls
    /\ scripted = FALSE
    /\ unitOptions = None
    /\ unitValue = None
    /\ unitReport = <<>>

----------------------------------------------------------------------------
(* command_line: the --list branch                                         *)

List ==
    /\ pc = "start"
    /\ args.list
    /\ printed' = Append(printed, ListDevices(hidDevices))
    /\ pc' = "done"
    /\ UNCHANGED <<args, hidDevices, product_id, isOpen, opens, closes,
                   output, ci, si, retries, nreads, last, lastRead,
                   lastReport, error, dev, served, scripted, unitOptions,
                   unitValue, unitReport, result>>

(* Battery(args.product_id): an error of the constructor leaves            *)
(* command_line before the with block is entered.                          *)
Construct ==
    /\ pc = "start"
    /\ ~args.list
    /\ LET r == InitProductId(args.product_id, hidDevices)
       IN  IF r.kind = "return"
           THEN /\ product_id' = r.value
                /\ pc' = "constructed"
                /\ error' = error
           ELSE /\ product_id' = product_id
                /\ pc' = "failed"
                /\ error' = r
    /\ UNCHANGED <<args, hidDevices, isOpen, opens, closes, output, ci, si,
                   retries, nreads, last, lastRead, lastReport, printed, dev,
                   served, scripted, unitOptions, unitValue, unitReport,
                   result>>

(* Battery.__enter__ -> open: device.open either opens the handle or       *)
(* raises, and then the with block is never entered.                       *)
Enter ==
    /\ pc = "constructed"
    /\ \E ok \in BOOLEAN :
        IF ok
        THEN /\ isOpen' = TRUE
             /\ opens' = opens + 1
             /\ pc' = "entered"
             /\ error' = error
        ELSE /\ isOpen' = isOpen
             /\ opens' = opens
             /\ pc' = "failed"
             /\ error' = Raise("IOError", "open failed")
    /\ UNCHANGED <<args, hidDevices, product_id, closes, output, ci, si,
                   retries, nreads, last, lastRead, lastReport, printed, dev,
                   served, scripted, unitOptions, unitValue, unitReport,
                   result>>

(* Battery.get is called: output = {}, and the walk runs up to the first   *)
(* get_feature_report call.                                                *)
GetStart ==
    /\ pc = "entered"
    /\ output' = EnterCategory(EmptyDict, 1)
    /\ ci' = 1
    /\ si' = FirstSub(1)
    /\ retries' = CallRetries(retries)
    /\ pc' = "read"
    /\ UNCHANGED <<args, hidDevices, product_id, isOpen, opens, closes,
                   nreads, last, lastRead, lastReport, error, printed, dev,
                   served, scripted, unitOptions, unitValue, unitReport,
                   result>>

\* the walk moves to position p; past the last category get() returns
MoveTo(p, out) ==
    /\ ci' = p[1]
    /\ si' = p[2]
    /\ output' = IF p[1] # ci THEN EnterCategory(out, p[1]) ELSE out
    /\ retries' = CallRetries(retries)
    /\ pc' = IF p[1] > NumCategories THEN "returned" ELSE "read"
    /\ error' = error

(* One get_feature_report call of Battery._read within Battery.get, and    *)
(* everything up to the next call: the retry, or the return into get(),    *)
(* the store or the except clause, and the walk to the next descriptor.    *)
ReadAttempt ==
    /\ pc = "read"
    /\ LET options == Options(ci, si)
           k == IF last.kind = "retry" THEN nreads + 1 ELSE 1
       IN  \E report \in Transport(options, k) :
             LET o == ReadOnce(options, report, retries)
             IN  /\ nreads' = k
                 /\ last' = o
                 /\ lastRead' = <<ci, si>>
                 /\ lastReport' = report
                 /\ served' = Serve(served, options.address)
                 /\ IF o.kind = "retry" THEN
                        /\ retries' = retries - 1
                        /\ UNCHANGED <<ci, si, output, pc, error>>
                    ELSE IF o.kind = "return" THEN
                        MoveTo(NextPos(ci, si), Store(output, ci, si, o.value))
                    ELSE IF Caught(o) THEN
                        MoveTo(SkipPos(ci, si), Except(output, ci))
                    ELSE
                        /\ pc' = "raised"
                        /\ error' = o
                        /\ UNCHANGED <<ci, si, output, retries>>
    /\ UNCHANGED <<args, hidDevices, product_id, isOpen, opens, closes,
                   printed, dev, scripted, unitOptions, unitValue,
                   unitReport, result>>

(* print(json.dumps(battery.get(), ...))                                   *)
PrintSnapshot ==
    /\ pc = "returned"
    /\ printed' = Append(printed, output)
    /\ pc' = "printed"
    /\ UNCHANGED <<args, hidDevices, product_id, isOpen, opens, closes,
                   output, ci, si, retries, nreads, last, lastRead,
                   lastReport, error, dev, served, scripted, unitOptions,
                   unitValue, unitReport, result>>

\* a close() that is skipped when an exception leaves the block
ExitRunsNoError(p) == p # "raised"
\* __exit__ runs however the with block is left at position p
ExitRuns(p) == TRUE

(* Battery.__exit__ -> close, at the end of the with block or when an      *)
(* exception leaves it; __exit__ returns None, so the exception goes on.   *)
Exit ==
    /\ pc \in {"printed", "raised"}
    /\ IF ExitRuns(pc)
       THEN isOpen' = FALSE /\ closes' = closes + 1
       ELSE UNCHANGED <<isOpen, closes>>
    /\ pc' = IF pc = "raised" THEN "failed" ELSE "done"
    /\ UNCHANGED <<args, hidDevices, product_id, opens, output, ci, si,
                   retries, nreads, last, lastRead, lastReport, error,
                   printed, dev, served, scripted, unitOptions, unitValue,
                   unitReport, result>>

Next ==
    \/ List
    \/ Construct
    \/ Enter
    \/ GetStart
    \/ ReadAttempt
    \/ PrintSnapshot
    \/ Exit

Spec == Init /\ [][Next]_vars

----------------------------------------------------------------------------
(* A library caller that holds one session and calls Battery.get up to     *)
(* MaxGets times, on a device that answers every register the same way     *)
(* each time it is asked.                                                  *)

Framed(options) ==
    <<options.address>> \o (CHOOSE pl \in Payloads(options.bytes) : TRUE)
\* a full report with another payload
AltFramed(options) ==
    <<options.address>> \o (IF options.bytes = 1 THEN <<255>> ELSE <<44, 2>>)
Misframed(options) == <<0>> \o (CHOOSE pl \in Payloads(options.bytes) : TRUE)
\* the ways one register may answer the successive reads of one get()
Kinds == {"ok", "alt", "late1", "late3", "late4", "silent", "bad", "bad3", "short"}
ScriptFor(kind, options) ==
    LET e == <<>>
    IN  CASE kind = "ok"     -> <<Framed(options)>>
          [] kind = "alt"    -> <<AltFramed(options)>>
          [] kind = "late1"  -> <<e, Framed(options)>>
          [] kind = "late3"  -> <<e, e, e, Framed(options)>>
          [] kind = "late4"  -> <<e, e, e, e, Framed(options)>>
          [] kind = "silent" -> <<>>
          [] kind = "bad"    -> <<Misframed(options)>>
          [] kind = "bad3"   -> <<e, e, e, Misframed(options)>>
          [] kind = "short"  -> <<<<options.address>>>>
OptionsAt(a) == CHOOSE o \in AllOptions : o.address = a
DeviceOf(kinds) == [a \in Addresses |-> ScriptFor(kinds[a], OptionsAt(a))]
\* every register answers the same way
Uniform == {[a \in Addresses |-> k] : k \in Kinds}
\* the registers up to address p answer one way, the others another way
Split ==
    {[a \in Addresses |-> IF a <= p THEN k1 ELSE k2] :
        p \in Addresses, k1 \in Kinds, k2 \in Kinds}
\* all registers answer at once but those of S
RECURSIVE Deviating(_, _)
Deviating(S, K) ==
    IF S = {} THEN K
    ELSE LET a == CHOOSE x \in S : TRUE
         IN  Deviating(S \ {a},
                       {[f EXCEPT ![a] = k] : f \in K, k \in Kinds})
Devices ==
    {DeviceOf(f) :
        f \in Uniform \cup Split \cup
              UNION {Deviating(S, {[a \in Addresses |-> "ok"]}) :
                        S \in {T \in SUBSET Addresses :
                                  Cardinality(T) <= MaxDeviants}}}

InitTwice ==
    /\ pc = "start"
    /\ args = [list |-> FALSE, product_id |-> IntVal(4098)]
    /\ hidDevices = <<>>
    /\ Fresh
    /\ dev \in Devices
    /\ served = NoCalls
    /\ scripted = TRUE
    /\ unitOptions = None
    /\ unitValue = None
    /\ unitReport = <<>>

(* the caller keeps the snapshot and is about to call get() again          *)
Keep ==
    /\ pc = "returned"
    /\ Len(printed) + 1 < MaxGets
    /\ printed' = Append(printed, output)
    /\ pc' = "entered"
    /\ UNCHANGED <<args, hidDevices, product_id, isOpen, opens, closes,
                   output, ci, si, retries, nreads, last, lastRead,
                   lastReport, error, dev, served, scripted, unitOptions,
                   unitValue, unitReport, result>>

NextTwice ==
    \/ Construct
    \/ Enter
    \/ GetStart
    \/ ReadAttempt
    \/ Keep
    \/ PrintSnapshot
    \/ Exit

SpecTwice == InitTwice /\ [][NextTwice]_vars

----------------------------------------------------------------------------
(* A direct call battery._read(options) on an open session whose           *)
(* transport answers every read of the call with the same report.          *)

ByteValues == 0..255
HighBytes == {0, 1, 255}
UnitReports(options) ==
    LET full == IF options.bytes = 1
                THEN {<<a, b>> : a \in {options.address, 0}, b \in ByteValues}
                ELSE {<<a, b, c>> : a \in {options.address, 0},
                                    b \in ByteValues, c \in HighBytes}
    IN  full \cup {<<>>, <<options.address>>}
             \cup {<<options.address, b>> : b \in HighBytes}

InitUnit ==
    /\ pc = "unit"
    /\ args = [list |-> FALSE, product_id |-> IntVal(4098)]
    /\ hidDevices = <<>>
    /\ product_id = IntVal(4098)
    /\ isOpen = TRUE
    /\ opens = 1
    /\ closes = 0
    /\ output = EmptyDict
    /\ ci = 0
    /\ si = 0
    /\ retries = DefaultRetries
    /\ nreads = 0
    /\ last = NoError
    /\ lastRead = <<0, 0>>
    /\ lastReport = <<>>
    /\ error = NoError
    /\ printed = <<>>
    /\ result = NoError
    /\ dev = NoDevice
    /\ served = NoCalls
    /\ scripted = FALSE
    /\ unitOptions \in AllOptions
    /\ unitValue = None
    /\ unitReport \in UnitReports(unitOptions)

(* One get_feature_report call of the direct _read call: it reads again,   *)
(* returns a value or raises.                                              *)
UnitRead ==
    /\ pc = "unit"
    /\ LET o == ReadOnce(unitOptions, unitReport, retries)
       IN  /\ nreads' = nreads + 1
           /\ last' = o
           /\ lastReport' = unitReport
           /\ IF o.kind = "retry"
              THEN /\ retries' = retries - 1
                   /\ UNCHANGED <<pc, result>>
              ELSE /\ result' = o
                   /\ pc' = "unitdone"
                   /\ UNCHANGED retries
    /\ UNCHANGED <<args, hidDevices, product_id, isOpen, opens, closes,
                   output, ci, si, lastRead, error, printed, dev, served,
                   scripted, unitOptions, unitValue, unitReport>>

NextUnit == UnitRead

SpecUnit == InitUnit /\ [][NextUnit]_vars

----------------------------------------------------------------------------
(* A direct call battery._read(options) on a numeric descriptor, answered  *)
(* with the synthetic report that encodes a chosen value: the address,     *)
(* then the value's bytes, low byte first.                                 *)

Numeric == {o \in AllOptions : o.format \in {"i", "f"}}
\* the values that fit the payload of the descriptor
Values(options) == 0..((256 ^ options.bytes) - 1)
EncodeReport(options, v) ==
    IF options.bytes = 1 THEN <<options.address, v % 256>>
    ELSE <<options.address, v % 256, v \div 256>>

InitRound ==
    /\ pc = "unit"
    /\ args = [list |-> FALSE, product_id |-> IntVal(4098)]
    /\ hidDevices = <<>>
    /\ product_id = IntVal(4098)
    /\ isOpen = TRUE
    /\ opens = 1
    /\ closes = 0
    /\ output = EmptyDict
    /\ ci = 0
    /\ si = 0
    /\ retries = DefaultRetries
    /\ nreads = 0
    /\ last = NoError
    /\ lastRead = <<0, 0>>
    /\ lastReport = <<>>
    /\ error = NoError
    /\ printed = <<>>
    /\ result = NoError
    /\ dev = NoDevice
    /\ served = NoCalls
    /\ scripted = FALSE
    /\ unitOptions \in Numeric
    /\ unitValue \in {IntVal(v) : v \in Values(unitOptions)}
    /\ unitReport = EncodeReport(unitOptions, unitValue.v)

SpecRound == InitRound /\ [][NextUnit]_vars


----------------------------------------------------------------------------
(* Vocabulary of the properties.                                           *)

HasRead == lastRead[1] > 0
\* the descriptor of the most recent get_feature_report call
LastOptions == Options(lastRead[1], lastRead[2])
NoData == [kind |-> "raise", exc |-> "IOError", msg |-> "Did not receive data."]
Unexpected ==
    [kind |-> "raise", exc |-> "IOError", msg |-> "Received unexpected data."]
\* a full report that echoes the address of the descriptor
WellFramed(options, report) ==
    /\ Len(report) = options.bytes + 1
    /\ report[1] = options.address
\* a non-empty report that echoes another address
Mismatched(options, report) ==
    /\ report # <<>>
    /\ report[1] # options.address
\* a report that echoes the address but lacks payload bytes
ShortReport(options, report) ==
    /\ report # <<>>
    /\ report[1] = options.address
    /\ Len(report) < options.bytes + 1

----------------------------------------------------------------------------
(* C1: one _read call issues at most 4 get_feature_report calls; it fails  *)
(* with "Did not receive data." only after exactly 4 calls, and a full,    *)
(* correctly framed report on the 4th call (after 3 empty ones) makes it   *)
(* return the value decoded from that report.                              *)
C1_RetryBound ==
    /\ nreads <= 4
    /\ last = NoData => nreads = 4 /\ lastReport = <<>>
    /\ (last.kind = "retry") => (nreads < 4 /\ lastReport = <<>>)
    /\ (HasRead /\ nreads = 4 /\ WellFramed(LastOptions, lastReport)) =>
            /\ last.kind = "return"
            /\ last.value = Decode(LastOptions, lastReport).value

\* a descriptor is answered on the 4th call and its value is returned
C1_Witness ==
    /\ HasRead
    /\ nreads = 4
    /\ WellFramed(LastOptions, lastReport)
    /\ last.kind = "return"

(* C2: a non-empty report whose byte 0 is not the descriptor's address     *)
(* makes _read fail with "Received unexpected data." on whichever attempt  *)
(* it arrives, and the next read, if any, is for another descriptor.       *)
C2_MismatchNotRetried ==
    (HasRead /\ Mismatched(LastOptions, lastReport)) =>
        /\ last = Unexpected
        /\ pc = "read" => <<ci, si>> # lastRead

\* the mismatch arrives after an empty read, while retries remain
C2_Witness ==
    /\ HasRead
    /\ Mismatched(LastOptions, lastReport)
    /\ nreads = 2
    /\ last = Unexpected
    /\ pc = "read"

----------------------------------------------------------------------------
(* What a scripted register does to one _read call, read off its script:   *)
(* the first non-empty report among the first 4 answers decides.           *)

FirstAnswer(script) ==
    LET ks == {k \in 1..Len(script) : k <= 4 /\ script[k] # <<>>}
    IN  IF ks = {} THEN 0 ELSE CHOOSE k \in ks : \A j \in ks : k <= j
\* the read of the descriptor succeeds
Answers(options) ==
    LET k == FirstAnswer(dev[options.address])
    IN  k > 0 /\ WellFramed(options, dev[options.address][k])
\* the read fails for want of data, or on a report of another register
FailsNoData(options) == FirstAnswer(dev[options.address]) = 0
FailsUnexpected(options) ==
    LET k == FirstAnswer(dev[options.address])
    IN  k > 0 /\ Mismatched(options, dev[options.address][k])
\* the value a successful read of the descriptor yields
Expected(options) ==
    Decode(options,
           dev[options.address][FirstAnswer(dev[options.address])]).value

Flat == {c \in 1..NumCategories : "address" \in DOMAIN structure[c][2]}
Nested == (1..NumCategories) \ Flat
Subs(c) == 1..Len(structure[c][2].items)
HasCategory(out, c) == DictHas(out, structure[c][1])
HasSub(out, c, s) ==
    /\ HasCategory(out, c)
    /\ DictHas(DictGet(out, structure[c][1]), structure[c][2].items[s][1])
\* the snapshot holds category c as it is when all its reads succeed
Complete(out, c) ==
    /\ HasCategory(out, c)
    /\ IF c \in Flat
       THEN DictGet(out, structure[c][1]) = Expected(structure[c][2])
       ELSE DictGet(out, structure[c][1]) =
                [type |-> "dict",
                 items |-> [s \in Subs(c) |->
                    <<structure[c][2].items[s][1],
                      Expected(structure[c][2].items[s][2])>>]]
AllAnswer(c) ==
    IF c \in Flat THEN Answers(structure[c][2])
    ELSE \A s \in Subs(c) : Answers(structure[c][2].items[s][2])

(* C3: in the snapshot get() returns, a subcategory of a nested category   *)
(* is present exactly when its own read succeeds, whatever its siblings    *)
(* do.  (Stated as claimed; the code does not behave so.)                  *)
C3_SubcategoriesIndependent ==
    pc = "returned" =>
        \A c \in Nested : \A s \in Subs(c) :
            HasSub(output, c, s) <=> Answers(structure[c][2].items[s][2])

(* C4: a report that echoes the right address but is shorter than          *)
(* bytes + 1 is a failure of that descriptor only: no error leaves get().  *)
(* (Stated as claimed; the code does not behave so.)                       *)
C4_ShortReadOmitted ==
    (HasRead /\ ShortReport(LastOptions, lastReport)) =>
        /\ pc # "raised"
        /\ error = NoError
        /\ last.kind = "raise" /\ last.exc = "IOError"

(* C5: when the read of a flat category fails with the no-data or the      *)
(* unexpected-data error, get() goes on, the returned snapshot has no key  *)
(* for that category, and every other category all of whose reads succeed  *)
(* is in it with the values decoded from its reports.                      *)
C5_FlatFailureIsolated ==
    /\ (HasRead /\ lastRead[1] \in Flat /\ last \in {NoData, Unexpected}) =>
            /\ pc \in {"read", "returned", "printed", "done", "entered"}
            /\ error = NoError
            /\ ~HasCategory(output, lastRead[1])
    /\ pc = "returned" =>
        \A c \in Flat :
            (FailsNoData(structure[c][2]) \/ FailsUnexpected(structure[c][2]))
            => /\ ~HasCategory(output, c)
               /\ \A d \in (1..NumCategories) \ {c} :
                      AllAnswer(d) => Complete(output, d)

\* get() returned although a flat category failed, with the others complete
C5_Witness ==
    /\ pc = "returned"
    /\ FailsUnexpected(structure[2][2])
    /\ ~HasCategory(output, 2)
    /\ \A d \in (1..NumCategories) \ {2} :
            AllAnswer(d) /\ Complete(output, d)

(* C6: when the reads of all subcategories of a nested category fail, the  *)
(* returned snapshot still has the category, as an empty mapping.          *)
C6_EmptyNestedKept ==
    pc = "returned" =>
        \A c \in Nested :
            (\A s \in Subs(c) :
                \/ FailsNoData(structure[c][2].items[s][2])
                \/ FailsUnexpected(structure[c][2].items[s][2]))
            => /\ HasCategory(output, c)
               /\ DictGet(output, structure[c][1]) = EmptyDict

\* every register is silent and get() returns the nested categories empty
C6_Witness ==
    /\ pc = "returned"
    /\ \A c \in Nested : \A s \in Subs(c) :
            FailsNoData(structure[c][2].items[s][2])
    /\ \A c \in Nested :
            /\ HasCategory(output, c)
            /\ DictGet(output, structure[c][1]) = EmptyDict

(* C7: on the command-line read path the session is opened before any      *)
(* register read, every get_feature_report call is made while the session  *)
(* is open, and once open has succeeded close is called exactly once by    *)
(* the time command_line is left, also when get() raises.                  *)
C7_SessionScoped ==
    /\ HasRead => opens = 1
    /\ pc = "read" => isOpen
    /\ opens <= 1
    /\ closes <= opens
    /\ isOpen <=> (opens = 1 /\ closes = 0)
    /\ (pc \in {"done", "failed"} /\ opens = 1) => closes = 1

\* get() raised, and the session was closed once before the error left
C7_Witness ==
    /\ pc = "failed"
    /\ error.kind = "raise"
    /\ error.exc = "IndexError"
    /\ opens = 1
    /\ closes = 1
    /\ ~isOpen

(* C8: two get() calls on one session whose registers answer the same way  *)
(* each time return identical snapshots.                                   *)
C8_GetIdempotent ==
    \A i \in 1..Len(printed) : printed[i] = printed[1]

\* both snapshots were taken; a register answered only on its 4th read and
\* another one not at all
C8_Witness ==
    /\ Len(printed) >= 2
    /\ printed[1] = printed[2]
    /\ \E a \in Addresses : Len(dev[a]) = 4 /\ Answers(OptionsAt(a))
    /\ HasSub(printed[2], 1, 3)

(* C9: with no product id given and no device of the Tripp Lite vendor     *)
(* enumerated, the constructor fails with an error that reaches the        *)
(* caller; the session is never opened and no register is read.            *)
C9_NoDeviceFails ==
    (/\ pc # "start"
     /\ ~args.list
     /\ args.product_id = None
     /\ \A i \in 1..Len(hidDevices) : hidDevices[i].vendor_id # VENDOR_ID)
    => /\ pc = "failed"
       /\ error = [kind |-> "raise", exc |-> "IOError",
                   msg |-> "Could not find any connected Tripp Lite devices."]
       /\ opens = 0
       /\ ~isOpen
       /\ ~HasRead
       /\ nreads = 0
       /\ printed = <<>>

\* devices of another vendor only, and the constructor has failed
C9_Witness ==
    /\ pc = "failed"
    /\ args.product_id = None
    /\ Len(hidDevices) = MaxDevices
    /\ \A i \in 1..Len(hidDevices) : hidDevices[i].vendor_id # VENDOR_ID
    /\ error.kind = "raise"
    /\ opens = 0

\* bit i (0 = least significant) of n
Bit(n, i) == (n \div (2 ^ i)) % 2 = 1

(* C10: for a bitfield descriptor and a correctly framed report with any   *)
(* payload byte 0..255, _read returns one boolean per declared flag name,  *)
(* in declared order, flag i being true exactly when bit i of the payload  *)
(* (0 = least significant) is set.                                         *)
C10_BitfieldOrder ==
    (/\ pc = "unitdone"
     /\ unitOptions.format = "b"
     /\ WellFramed(unitOptions, unitReport))
    => /\ result.kind = "return"
       /\ result.value.type = "dict"
       /\ Len(result.value.items) = Len(unitOptions.keys)
       /\ \A i \in 1..Len(unitOptions.keys) :
            result.value.items[i] =
                <<unitOptions.keys[i],
                  [type |-> "bool", v |-> Bit(unitReport[2], i - 1)]>>

\* payload 0b00000011 sets the first two flags only
C10_Witness ==
    /\ pc = "unitdone"
    /\ unitOptions.format = "b"
    /\ unitReport = <<unitOptions.address, 3>>
    /\ result.kind = "return"
    /\ \A i \in 1..8 : result.value.items[i][2].v = (i <= 2)

(* C11: for every full, correctly framed report with bytes in 0..255,      *)
(* _read returns byte 1 for a 1-byte integer descriptor, byte 1 + 256 *    *)
(* byte 2 (within 0..65535) for a 2-byte integer descriptor, and that      *)
(* 16-bit value divided by 10 for a scaled-float descriptor.               *)
C11_DecodeArithmetic ==
    (pc = "unitdone" /\ WellFramed(unitOptions, unitReport)) =>
        /\ result.kind = "return"
        /\ (unitOptions.format = "i" /\ unitOptions.bytes = 1) =>
                /\ result.value = [type |-> "int", v |-> unitReport[2]]
                /\ result.value.v \in 0..255
        /\ (unitOptions.format = "i" /\ unitOptions.bytes = 2) =>
                /\ result.value =
                     [type |-> "int", v |-> unitReport[2] + 256 * unitReport[3]]
                /\ result.value.v \in 0..65535
        /\ unitOptions.format = "f" =>
                /\ result.value =
                     [type |-> "float",
                      num |-> unitReport[2] + 256 * unitReport[3], den |-> 10]
                /\ result.value.num \in 0..65535

\* [addr, 0x05, 0x00] on a scaled-float descriptor yields 5 tenths
C11_Witness ==
    /\ pc = "unitdone"
    /\ unitOptions.format = "f"
    /\ unitReport = <<unitOptions.address, 5, 0>>
    /\ result = [kind |-> "return",
                 value |-> [type |-> "float", num |-> 5, den |-> 10]]

\* the decode branches of _read a descriptor selects
Branches(options) ==
    {b \in 1..4 :
        \/ b = 1 /\ options.format = "b"
        \/ b = 2 /\ options.format = "i" /\ options.bytes = 2
        \/ b = 3 /\ options.format = "i" /\ options.bytes = 1
        \/ b = 4 /\ options.format = "f"}

(* C12: every descriptor of the register table has the byte count its      *)
(* format needs ('b': 1, 'f': 2, 'i': 1 or 2), so it selects exactly one   *)
(* decode branch of _read, and a full, correctly framed report never       *)
(* decodes to no value.                                                    *)
C12_TableMatchesDecoder ==
    /\ unitOptions.format \in {"b", "i", "f"}
    /\ unitOptions.format = "b" => unitOptions.bytes = 1
    /\ unitOptions.format = "f" => unitOptions.bytes = 2
    /\ unitOptions.format = "i" => unitOptions.bytes \in {1, 2}
    /\ Cardinality(Branches(unitOptions)) = 1
    /\ (pc = "unitdone" /\ WellFramed(unitOptions, unitReport)) =>
            /\ result.kind = "return"
            /\ result.value.type # "None"

\* the 2-byte integer register 53 decoded a full report to a value
C12_Witness ==
    /\ pc = "unitdone"
    /\ unitOptions.address = 53
    /\ WellFramed(unitOptions, unitReport)
    /\ result.kind = "return"
    /\ result.value.type = "int"

(* C13: round trip: the report [address, v mod 256, v div 256] built for   *)
(* a value v that fits the descriptor decodes to v for the integer         *)
(* formats, and to v / 10 for the scaled-float format.                     *)
C13_RoundTrip ==
    pc = "unitdone" =>
        /\ result.kind = "return"
        /\ unitOptions.format = "i" => result.value = unitValue
        /\ unitOptions.format = "f" =>
                /\ result.value.type = "float"
                /\ result.value.num = unitValue.v
                /\ result.value.den = 10

\* the largest 16-bit value came back from a 2-byte integer descriptor
C13_Witness ==
    /\ pc = "unitdone"
    /\ unitOptions.format = "i"
    /\ unitValue = [type |-> "int", v |-> 65535]
    /\ unitReport = <<unitOptions.address, 255, 255>>
    /\ result.kind = "return"
    /\ result.value.v = 65535

RECURSIVE SumOver(_, _)
SumOver(f, S) ==
    IF S = {} THEN 0
    ELSE LET a == CHOOSE x \in S : TRUE IN f[a] + SumOver(f, S \ {a})
\* get() calls begun so far, once the first has begun
Gets == Len(printed) + 1

\* the descriptors get() has still to read after position (c, s)
Later(c, s) ==
    {p \in Positions : p[1] > c \/ (p[1] = c /\ p[2] > s)}
\* the transport reads get() may still make: those left to the running
\* _read call and 4 for every later descriptor; none once get() is left
Budget(p, c, s, r) ==
    IF p = "read" THEN 4 * Cardinality(Later(c, s)) + r + 1 ELSE 0

(* C14: get() always terminates, also on a transport that never answers:   *)
(* every step of get() lowers a bound on the reads still to come, no       *)
(* descriptor is read more than 4 times within one get(), and one          *)
(* snapshot costs at most 4 reads for each of the 10 descriptors, 40 in    *)
(* all.                                                                    *)
C14_GetTerminates ==
    /\ [](/\ Cardinality(Positions) = 10
          /\ \A a \in Addresses : served[a] <= 4 * Gets
          /\ SumOver(served, Addresses) <= 40 * Gets
          /\ (pc = "read" /\ Len(printed) = 0) =>
                /\ \A a \in Addresses : served[a] <= 4
                /\ SumOver(served, Addresses) <= 40
          /\ Budget(pc, ci, si, retries) \in 0..40)
    /\ [][pc = "read" =>
            /\ Budget(pc', ci', si', retries') < Budget(pc, ci, si, retries)
            /\ SumOver(served', Addresses) = SumOver(served, Addresses) + 1
         ]_vars

\* no register ever answers, and the first get() has returned after
\* 4 reads of each descriptor it tried
C14_Witness ==
    /\ pc = "returned"
    /\ Len(printed) = 0
    /\ \A a \in Addresses : dev[a] = <<>>
    /\ \A a \in Addresses : served[a] \in {0, 4}
    /\ SumOver(served, Addresses) = 24

\* position p comes before position q in the declared order of the table
Before(p, q) == p[1] < q[1] \/ (p[1] = q[1] /\ p[2] < q[2])

(* C15: within one get() every transport read is for the descriptor the    *)
(* walk is at; a read that follows an empty report with retries left is    *)
(* for the same descriptor, and any other read is for a descriptor         *)
(* declared later than every descriptor read before: reads follow the      *)
(* declared order, the attempts of one descriptor are contiguous, and no   *)
(* descriptor is returned to.                                              *)
C15_DeclaredOrder ==
    [][pc = "read" =>
        /\ lastRead' = <<ci, si>>
        /\ lastRead' \in Positions
        /\ IF last.kind = "retry"
           THEN lastRead' = lastRead /\ nreads' = nreads + 1
           ELSE /\ nreads' = 1
                /\ HasRead => Before(lastRead, lastRead')
        /\ pc' = "read" =>
             IF last'.kind = "retry" THEN <<ci', si'>> = lastRead'
             ELSE Before(lastRead', <<ci', si'>>)
      ]_vars

\* the third read of output.power, after reads of earlier descriptors
C15_Witness ==
    /\ lastRead = <<4, 2>>
    /\ nreads = 3
    /\ last.kind = "retry"
    /\ pc = "read"
    /\ HasSub(output, 1, 3)

CategoryNames == {structure[c][1] : c \in 1..NumCategories}
CategoryOf(name) == CHOOSE c \in 1..NumCategories : structure[c][1] = name
SubNames(c) == {structure[c][2].items[s][1] : s \in Subs(c)}
Keys(d) == {d.items[i][1] : i \in 1..Len(d.items)}
\* the keys of a snapshot are categories of the table, each once, and the
\* keys under a nested category are subcategories of it, each once
WithinTable(out) ==
    /\ out.type = "dict"
    /\ Keys(out) \subseteq CategoryNames
    /\ Cardinality(Keys(out)) = Len(out.items)
    /\ \A i \in 1..Len(out.items) :
          LET c == CategoryOf(out.items[i][1])
              v == out.items[i][2]
          IN  IF c \in Nested
              THEN /\ v.type = "dict"
                   /\ Keys(v) \subseteq SubNames(c)
                   /\ Cardinality(Keys(v)) = Len(v.items)
                   /\ \A j \in 1..Len(v.items) :
                        v.items[j][2].type \in {"int", "float"}
              ELSE IF structure[c][2].format = "b"
                   THEN v.type = "dict" /\ Len(v.items) = 8
                   ELSE v.type \in {"int", "float"}

(* C16: the keys of every snapshot are category names of the register      *)
(* table and the keys of every nested mapping are subcategory names of     *)
(* that category; when every read succeeds the snapshot has the shape of   *)
(* the table, a decoded value for every flat category and for every        *)
(* subcategory.                                                            *)
C16_SnapshotShape ==
    /\ WithinTable(output)
    /\ \A i \in 1..Len(printed) : WithinTable(printed[i])
    /\ (pc = "returned" /\ \A c \in 1..NumCategories : AllAnswer(c)) =>
            /\ Len(output.items) = NumCategories
            /\ \A c \in 1..NumCategories :
                    /\ output.items[c][1] = structure[c][1]
                    /\ Complete(output, c)

\* every register answers and get() returned the full snapshot
C16_Witness ==
    /\ pc = "returned"
    /\ \A c \in 1..NumCategories : AllAnswer(c)
    /\ Len(output.items) = 6
    /\ Len(DictGet(output, "config").items) = 3
    /\ \E a \in Addresses : FirstAnswer(dev[a]) = 4

HasLeaf(out, p) ==
    IF p[2] = 0 THEN HasCategory(out, p[1]) ELSE HasSub(out, p[1], p[2])
LeafOf(out, p) ==
    IF p[2] = 0 THEN DictGet(out, structure[p[1]][1])
    ELSE DictGet(DictGet(out, structure[p[1]][1]),
                 structure[p[1]][2].items[p[2]][1])
DescriptorAt(p) ==
    IF p[2] = 0 THEN structure[p[1]][2] ELSE structure[p[1]][2].items[p[2]][2]

(* C17: a value enters the snapshot only under the key of the descriptor   *)
(* just read, decoded from a non-empty report whose byte 0 is that         *)
(* descriptor's address; the snapshot handed out is the one so built.      *)
C17_ValuesFromOwnReports ==
    [][/\ \A p \in Positions :
            (/\ HasLeaf(output', p)
             /\ ~HasLeaf(output, p) \/ LeafOf(output', p) # LeafOf(output, p))
            => /\ pc = "read"
               /\ p = <<ci, si>>
               /\ lastRead' = p
               /\ lastReport' # <<>>
               /\ lastReport'[1] = DescriptorAt(p).address
               /\ Return(LeafOf(output', p)) =
                    Decode(DescriptorAt(p), lastReport')
       /\ pc = "returned" => printed' = Append(printed, output)
      ]_vars

\* config.voltage failed, config stayed empty, and status has its value
C17_Witness ==
    /\ HasCategory(output, 1)
    /\ ~HasSub(output, 1, 1)
    /\ HasLeaf(output, <<2, 0>>)
    /\ lastRead = <<2, 0>>
    /\ nreads = 2
    /\ lastReport = <<50, 3>>

(* C18: every _read call get() makes starts with the full budget of 3      *)
(* retries, whatever earlier calls of this or an earlier get() used up,    *)
(* so a register that answers within its first 4 reads always yields its   *)
(* value, also on the 4th read and after other registers ran out.          *)
C18_BudgetPerCall ==
    /\ (pc = "read" /\ last.kind # "retry") => retries = 3
    /\ (pc = "read" /\ last.kind = "retry") => retries = 3 - nreads
    /\ (HasRead /\ last.kind # "retry" /\ Answers(LastOptions)) =>
            /\ last.kind = "return"
            /\ last.value = Expected(LastOptions)
            /\ nreads = FirstAnswer(dev[LastOptions.address])

\* in the second get() the health register has again run out of retries
\* and the next register has again answered on its 4th read
C18_Witness ==
    /\ Len(printed) = 1
    /\ FirstAnswer(dev[52]) = 0
    /\ FirstAnswer(dev[53]) = 4
    /\ ~HasCategory(output, 5)
    /\ lastRead = <<6, 0>>
    /\ last.kind = "return"
    /\ nreads = 4
    /\ pc = "returned"

====
